---- MODULE Spec2Model ----
(***************************************************************************)
(* A model of bark_rs: the message builder (src/src/message.rs), the       *)
(* synchronous client and its JSON payload (src/src/sync_client.rs) and    *)
(* the error kinds (src/src/lib.rs).                                       *)
(*                                                                         *)
(* Option<T> is a sequence of length at most one: None is <<>>, Some(v) is *)
(* <<v>>.  A URL is a sequence of characters, so that trimming and         *)
(* concatenation are computed; the other strings are opaque values.        *)
(***************************************************************************)
EXTENDS Integers, Sequences, FiniteSets, TLC

VARIABLES
    builder,    \* the BarkMessageBuilder under construction: [message |-> BarkMessage]
    message,    \* the BarkMessage returned by build(), NoMessage before build()
    origin,     \* "builder": build() not yet called; "build": message as built;
                \* "field": a public field of the message was assigned afterwards
    calls,      \* number of setter calls and field assignments made so far
    lastArg,    \* per setter, the argument of the last call to it (None: never called)
    client,     \* the SyncBarkClient: [base_url, default_device_key], or NoClient
    ctor,       \* the constructor call that made the client: [fn, base_url, device_key]
    pc,         \* position of the current send: "idle", "posted", "responded", "done"
    request,    \* the HTTP request issued by the current send, NoRequest if none
    requests,   \* number of HTTP requests issued by the current send
    response,   \* the HTTP response body received by the current send
    result,     \* the Result returned by the current send, None while it runs
    syncBuilder,\* the SyncBarkMessageBuilder made by client.message(): [client, builder]
    other       \* a second client and its send, while the first one runs: [client, ctor,
                \* pc, request, requests, response, result], or NoOther

builderVars == <<builder, message, origin, calls, lastArg>>
clientVars  == <<client, ctor>>
sendVars    == <<pc, request, requests, response, result>>
auxVars     == <<syncBuilder, other>>
vars        == <<builder, message, origin, calls, lastArg, client, ctor,
                 pc, request, requests, response, result, syncBuilder, other>>

(***************************************************************************)
(* Bounds of the model.                                                    *)
(***************************************************************************)
MaxCalls == 2       \* setter calls and field assignments per message
MaxVolumeArg == 12  \* volume arguments 0..MaxVolumeArg are tried, and U8Max
MaxUrlLen == 3      \* length of the base_url given to a constructor
MaxKeyList == 2     \* length of a device_keys list

U8Max == 255

None == <<>>
Some(v) == <<v>>
IsSome(o) == o # None
Unwrap(o) == o[1]

Strings == {"a", "b"}
Keys == {"k1", "k2"}
Bools == {TRUE, FALSE}
Badges == {0, 5}
Volumes == (0..MaxVolumeArg) \cup {U8Max}
Levels == {"Critical", "Active", "TimeSensitive", "Passive"}
KeyLists == UNION {[1..n -> Keys] : n \in 0..MaxKeyList}
UrlChars == {"h", ":", "/"}
Urls == UNION {[1..n -> UrlChars] : n \in 0..MaxUrlLen}

\* Mutant of Level::as_str: TimeSensitive is written in snake case.
as_str_snake_case(self) ==
    CASE self = "Critical" -> "critical"
      [] self = "Active" -> "active"
      [] self = "TimeSensitive" -> "time_sensitive"
      [] self = "Passive" -> "passive"

(***************************************************************************)
(* Level::as_str                                                           *)
(***************************************************************************)
as_str(self) ==
    CASE self = "Critical" -> "critical"
      [] self = "Active" -> "active"
      [] self = "TimeSensitive" -> "timeSensitive"
      [] self = "Passive" -> "passive"

\* Mutant of BarkMessage::default: the level starts as Active.
BarkMessage_default_active ==
    [title |-> None, subtitle |-> None, body |-> "", device_key |-> None,
     device_keys |-> None, level |-> <<"Active">>, volume |-> None, badge |-> None,
     call |-> None, auto_copy |-> None, copy |-> None, sound |-> None,
     icon |-> None, group |-> None, ciphertext |-> None, is_archive |-> None,
     url |-> None, action |-> None, id |-> None, delete |-> None]

(***************************************************************************)
(* BarkMessage::default and BarkMessageBuilder::new                        *)
(***************************************************************************)
BarkMessage_default ==
    [title |-> None, subtitle |-> None, body |-> "", device_key |-> None,
     device_keys |-> None, level |-> None, volume |-> None, badge |-> None,
     call |-> None, auto_copy |-> None, copy |-> None, sound |-> None,
     icon |-> None, group |-> None, ciphertext |-> None, is_archive |-> None,
     url |-> None, action |-> None, id |-> None, delete |-> None]

BarkMessageBuilder_new == [message |-> BarkMessage_default]

Fields == DOMAIN BarkMessage_default

(***************************************************************************)
(* The setters of BarkMessageBuilder: each takes the builder and a value   *)
(* and returns the builder.                                                *)
(***************************************************************************)
\* Mutant of title: the first value given is kept.
title_first_wins(self, v) ==
    IF IsSome(self.message.title) THEN self ELSE [self EXCEPT !.message.title = Some(v)]

\* Mutant of volume: the upper end of the range is left out.
volume_below_ten(self, v) ==
    IF v < 10 THEN [self EXCEPT !.message.volume = Some(v)] ELSE self

body(self, v) == [self EXCEPT !.message.body = v]
title(self, v) == [self EXCEPT !.message.title = Some(v)]
subtitle(self, v) == [self EXCEPT !.message.subtitle = Some(v)]
device_key(self, v) == [self EXCEPT !.message.device_key = Some(v)]
\* Mutant of device_keys: setting the list clears the single key.
device_keys_clears_device_key(self, v) ==
    [self EXCEPT !.message.device_keys = Some(v), !.message.device_key = <<>>]

device_keys(self, v) == [self EXCEPT !.message.device_keys = Some(v)]
level(self, v) == [self EXCEPT !.message.level = Some(v)]
\* Mutant of volume: a value above 10 clears the field.
volume_clears_above_ten(self, v) ==
    IF v <= 10 THEN [self EXCEPT !.message.volume = Some(v)]
    ELSE [self EXCEPT !.message.volume = <<>>]

volume(self, v) ==
    IF v <= 10 THEN [self EXCEPT !.message.volume = Some(v)] ELSE self
badge(self, v) == [self EXCEPT !.message.badge = Some(v)]
call(self, v) == [self EXCEPT !.message.call = Some(v)]
auto_copy(self, v) == [self EXCEPT !.message.auto_copy = Some(v)]
copy(self, v) == [self EXCEPT !.message.copy = Some(v)]
sound(self, v) == [self EXCEPT !.message.sound = Some(v)]
icon(self, v) == [self EXCEPT !.message.icon = Some(v)]
group(self, v) == [self EXCEPT !.message.group = Some(v)]
ciphertext(self, v) == [self EXCEPT !.message.ciphertext = Some(v)]
is_archive(self, v) == [self EXCEPT !.message.is_archive = Some(v)]
url(self, v) == [self EXCEPT !.message.url = Some(v)]
action(self, v) == [self EXCEPT !.message.action = Some(v)]
id(self, v) == [self EXCEPT !.message.id = Some(v)]
delete(self, v) == [self EXCEPT !.message.delete = Some(v)]

(***************************************************************************)
(* BarkMessageBuilder::build                                               *)
(***************************************************************************)
build(self) == self.message

NoMessage == [absent |-> TRUE]
NoClient == [absent |-> TRUE]
NoRequest == [absent |-> TRUE]
NoResponse == <<"none">>
NoCtor == [fn |-> "none"]
NoOther == [absent |-> TRUE]
NoSyncBuilder == [absent |-> TRUE]

NoArgs == [f \in Fields |-> None]

(***************************************************************************)
(* A setter call on the builder: allowed until build() consumes it.        *)
(***************************************************************************)
SetterCall(name, v, after) ==
    /\ origin = "builder"
    /\ calls < MaxCalls
    /\ builder' = after
    /\ lastArg' = [lastArg EXCEPT ![name] = Some(v)]
    /\ calls' = calls + 1
    /\ UNCHANGED <<message, origin>>
    /\ UNCHANGED clientVars
    /\ UNCHANGED sendVars
    /\ UNCHANGED auxVars

Call_body == \E v \in Strings : SetterCall("body", v, body(builder, v))
Call_title == \E v \in Strings : SetterCall("title", v, title(builder, v))
Call_subtitle == \E v \in Strings : SetterCall("subtitle", v, subtitle(builder, v))
Call_device_key == \E v \in Keys : SetterCall("device_key", v, device_key(builder, v))
Call_device_keys == \E v \in KeyLists : SetterCall("device_keys", v, device_keys(builder, v))
Call_level == \E v \in Levels : SetterCall("level", v, level(builder, v))
Call_volume == \E v \in Volumes : SetterCall("volume", v, volume(builder, v))
Call_badge == \E v \in Badges : SetterCall("badge", v, badge(builder, v))
Call_call == \E v \in Bools : SetterCall("call", v, call(builder, v))
Call_auto_copy == \E v \in Bools : SetterCall("auto_copy", v, auto_copy(builder, v))
Call_copy == \E v \in Strings : SetterCall("copy", v, copy(builder, v))
Call_sound == \E v \in Strings : SetterCall("sound", v, sound(builder, v))
Call_icon == \E v \in Strings : SetterCall("icon", v, icon(builder, v))
Call_group == \E v \in Strings : SetterCall("group", v, group(builder, v))
Call_ciphertext == \E v \in Strings : SetterCall("ciphertext", v, ciphertext(builder, v))
Call_is_archive == \E v \in Bools : SetterCall("is_archive", v, is_archive(builder, v))
Call_url == \E v \in Strings : SetterCall("url", v, url(builder, v))
Call_action == \E v \in Strings : SetterCall("action", v, action(builder, v))
Call_id == \E v \in Strings : SetterCall("id", v, id(builder, v))
Call_delete == \E v \in Bools : SetterCall("delete", v, delete(builder, v))

Call_build ==
    /\ origin = "builder"
    /\ message' = build(builder)
    /\ origin' = "build"
    /\ UNCHANGED <<builder, calls, lastArg>>
    /\ UNCHANGED clientVars
    /\ UNCHANGED sendVars
    /\ UNCHANGED auxVars

(***************************************************************************)
(* BarkMessage.volume is a public field: a caller can assign it without    *)
(* the builder, and then no range check is applied.                        *)
(***************************************************************************)
Assign_volume ==
    /\ origin # "builder"
    /\ pc = "idle"
    /\ calls < MaxCalls
    /\ \E v \in Volumes : message' = [message EXCEPT !.volume = Some(v)]
    /\ origin' = "field"
    /\ calls' = calls + 1
    /\ UNCHANGED <<builder, lastArg>>
    /\ UNCHANGED clientVars
    /\ UNCHANGED sendVars
    /\ UNCHANGED auxVars

BuilderNext ==
    \/ Call_body \/ Call_title \/ Call_subtitle \/ Call_device_key
    \/ Call_device_keys \/ Call_level \/ Call_volume \/ Call_badge
    \/ Call_call \/ Call_auto_copy \/ Call_copy \/ Call_sound \/ Call_icon
    \/ Call_group \/ Call_ciphertext \/ Call_is_archive \/ Call_url
    \/ Call_action \/ Call_id \/ Call_delete \/ Call_build

InitBuilderVars ==
    /\ builder = BarkMessageBuilder_new
    /\ message = NoMessage
    /\ origin = "builder"
    /\ calls = 0
    /\ lastArg = NoArgs

InitSendVars ==
    /\ pc = "idle"
    /\ request = NoRequest
    /\ requests = 0
    /\ response = NoResponse
    /\ result = None

InitAuxVars ==
    /\ syncBuilder = NoSyncBuilder
    /\ other = NoOther

InitBuilder ==
    /\ InitBuilderVars
    /\ client = NoClient
    /\ ctor = NoCtor
    /\ InitSendVars
    /\ InitAuxVars

SpecBuilder == InitBuilder /\ [][BuilderNext]_vars

\* Mutant of trim_end_matches: a single trailing character is removed.
strip_one_suffix(s, ch) ==
    IF s # <<>> /\ s[Len(s)] = ch THEN SubSeq(s, 1, Len(s) - 1) ELSE s

(***************************************************************************)
(* str::trim_end_matches('/') as used by the constructors: every trailing  *)
(* '/' is removed.                                                         *)
(***************************************************************************)
RECURSIVE trim_end_matches(_, _)
trim_end_matches(s, ch) ==
    IF s # <<>> /\ s[Len(s)] = ch
    THEN trim_end_matches(SubSeq(s, 1, Len(s) - 1), ch)
    ELSE s

(***************************************************************************)
(* SyncBarkClient::new and SyncBarkClient::with_device_key                 *)
(***************************************************************************)
new(base_url) ==
    [base_url |-> trim_end_matches(base_url, "/"),
     default_device_key |-> None]

with_device_key(base_url, key) ==
    [base_url |-> trim_end_matches(base_url, "/"),
     default_device_key |-> Some(key)]

Construct_new ==
    \E u \in Urls :
        /\ client' = new(u)
        /\ ctor' = [fn |-> "new", base_url |-> u, device_key |-> None]
        /\ UNCHANGED builderVars
        /\ UNCHANGED sendVars
        /\ UNCHANGED auxVars

Construct_with_device_key ==
    \E u \in Urls, k \in Keys :
        /\ client' = with_device_key(u, k)
        /\ ctor' = [fn |-> "with_device_key", base_url |-> u, device_key |-> Some(k)]
        /\ UNCHANGED builderVars
        /\ UNCHANGED sendVars
        /\ UNCHANGED auxVars

ClientNext == Construct_new \/ Construct_with_device_key

InitClient ==
    /\ InitBuilderVars
    /\ client = NoClient
    /\ ctor = NoCtor
    /\ InitSendVars
    /\ InitAuxVars

SpecClient == InitClient /\ [][ClientNext]_vars

(***************************************************************************)
(* serde_json::Value, as far as the payload and the responses use it, and  *)
(* HashMap<String, Value> with its insert.                                 *)
(***************************************************************************)
JString(s) == <<"String", s>>
JNumber(n) == <<"Number", n>>
JArray(a) == <<"Array", a>>

HashMap_new == [k \in {} |-> None]
insert(map, k, v) == [x \in DOMAIN map \cup {k} |-> IF x = k THEN v ELSE map[x]]

(***************************************************************************)
(* The expression  if flag { "1" } else { "0" }  of build_json_payload.    *)
(***************************************************************************)
\* Mutant of the flag expression: the flag is written as "true"/"false".
flag_str_bool_words(flag) == IF flag THEN "true" ELSE "false"

flag_str(flag) == IF flag THEN "1" ELSE "0"

(***************************************************************************)
(* The block  if <field is present> { payload.insert(key, value); }  of    *)
(* build_json_payload: the value is computed only for a present field.     *)
(***************************************************************************)
insert_if(present, map, k, v) == IF present THEN insert(map, k, v) ELSE map

level_value(l) == JString(as_str(l))

\* Mutant of key_auto_copy: the field's own name is used as the key.
key_auto_copy_snake_case == "auto_copy"

(***************************************************************************)
(* The two payload keys that differ from their field's name.               *)
(***************************************************************************)
key_auto_copy == "autoCopy"
key_is_archive == "isArchive"

flag_value(flag) == JString(flag_str(flag))

\* Mutant of volume_written: the payload takes any present volume.
volume_written_unchecked(m) == IsSome(m.volume)

(***************************************************************************)
(* if let Some(volume) = message.volume { if volume <= 10 { .. } }         *)
(***************************************************************************)
volume_written(m) == IsSome(m.volume) /\ Unwrap(m.volume) <= 10

(***************************************************************************)
(* SyncBarkClient::build_json_payload.  Its only fallible step is          *)
(* serde_json::to_value on a Vec<String>, which cannot fail, so the result *)
(* is the map itself.                                                      *)
(***************************************************************************)
build_json_payload(m) ==
    LET p0 == insert(HashMap_new, "body", JString(m.body))
        p1 == insert_if(IsSome(m.title), p0, "title", JString(Unwrap(m.title)))
        p2 == insert_if(IsSome(m.subtitle), p1, "subtitle", JString(Unwrap(m.subtitle)))
        p3 == insert_if(IsSome(m.device_keys), p2, "device_keys", JArray(Unwrap(m.device_keys)))
        p4 == insert_if(IsSome(m.level), p3, "level", level_value(Unwrap(m.level)))
        p5 == insert_if(volume_written(m),
                        p4, "volume", JNumber(Unwrap(m.volume)))
        p6 == insert_if(IsSome(m.badge), p5, "badge", JNumber(Unwrap(m.badge)))
        p7 == insert_if(IsSome(m.call), p6, "call", flag_value(Unwrap(m.call)))
        p8 == insert_if(IsSome(m.auto_copy), p7, key_auto_copy, flag_value(Unwrap(m.auto_copy)))
        p9 == insert_if(IsSome(m.copy), p8, "copy", JString(Unwrap(m.copy)))
        p10 == insert_if(IsSome(m.sound), p9, "sound", JString(Unwrap(m.sound)))
        p11 == insert_if(IsSome(m.icon), p10, "icon", JString(Unwrap(m.icon)))
        p12 == insert_if(IsSome(m.group), p11, "group", JString(Unwrap(m.group)))
        p13 == insert_if(IsSome(m.ciphertext), p12, "ciphertext", JString(Unwrap(m.ciphertext)))
        p14 == insert_if(IsSome(m.is_archive), p13, key_is_archive, flag_value(Unwrap(m.is_archive)))
        p15 == insert_if(IsSome(m.url), p14, "url", JString(Unwrap(m.url)))
        p16 == insert_if(IsSome(m.action), p15, "action", JString(Unwrap(m.action)))
        p17 == insert_if(IsSome(m.id), p16, "id", JString(Unwrap(m.id)))
        p18 == insert_if(IsSome(m.delete), p17, "delete", flag_value(Unwrap(m.delete)))
    IN  p18

(***************************************************************************)
(* Result<T, BarkError> and the From impls of BarkError that the ? operator *)
(* applies.                                                                *)
(***************************************************************************)
Ok(v) == <<"Ok", v>>
Err(e) == <<"Err", e>>
IsOk(r) == r[1] = "Ok"
IsErr(r) == r[1] = "Err"

From_ReqwestError == "RequestError"
From_SerdeJsonError == "SerializationError"

(***************************************************************************)
(* Mutants of get_device_key: one that falls back to an empty key instead  *)
(* of failing, one that prefers the client's default key.                  *)
(***************************************************************************)
get_device_key_empty_fallback(self, m) ==
    IF IsSome(m.device_key) THEN Ok(Unwrap(m.device_key))
    ELSE IF IsSome(self.default_device_key) THEN Ok(Unwrap(self.default_device_key))
    ELSE Ok("")

get_device_key_default_first(self, m) ==
    IF IsSome(self.default_device_key) THEN Ok(Unwrap(self.default_device_key))
    ELSE IF IsSome(m.device_key) THEN Ok(Unwrap(m.device_key))
    ELSE Err("MissingDeviceKey")

(***************************************************************************)
(* SyncBarkClient::get_device_key                                          *)
(***************************************************************************)
get_device_key(self, m) ==
    IF IsSome(m.device_key) THEN Ok(Unwrap(m.device_key))
    ELSE IF IsSome(self.default_device_key) THEN Ok(Unwrap(self.default_device_key))
    ELSE Err("MissingDeviceKey")

\* Mutant of push_url: the path is appended without its leading slash.
push_url_no_separator(self) == self.base_url \o <<"p", "u", "s", "h">>

(***************************************************************************)
(* format!("{}/push", self.base_url)                                       *)
(***************************************************************************)
push_url(self) == self.base_url \o <<"/", "p", "u", "s", "h">>

(***************************************************************************)
(* IntoUrl, as reqwest's post(&url) applies it: the text must parse as an  *)
(* absolute URL with a host.  Here "h:" stands for a scheme and host such  *)
(* as "https://api.day.app", and a URL is accepted when it starts with it. *)
(***************************************************************************)
into_url_ok(target) ==
    Len(target) >= 2 /\ target[1] = "h" /\ target[2] = ":"

\* Mutant of Post: a URL that is not accepted is reported as InvalidUrl.
Post_invalid_url(target, payload) ==
    IF into_url_ok(target)
    THEN /\ request' = [method |-> "POST", url |-> target, json |-> payload]
         /\ requests' = (IF pc = "posted" THEN requests ELSE 0) + 1
         /\ pc' = "posted"
         /\ response' = NoResponse
         /\ result' = None
    ELSE /\ request' = NoRequest
         /\ requests' = (IF pc = "posted" THEN requests ELSE 0)
         /\ pc' = "done"
         /\ response' = NoResponse
         /\ result' = Some(Err("InvalidUrl"))

(***************************************************************************)
(* self.client.post(&url).json(&payload).send(): one HTTP request leaves.  *)
(* When the URL is not accepted, the builder holds a reqwest::Error and    *)
(* send() returns it, through From<ReqwestError>, without any request.     *)
(***************************************************************************)
Post(target, payload) ==
    IF into_url_ok(target)
    THEN /\ request' = [method |-> "POST", url |-> target, json |-> payload]
         /\ requests' = (IF pc = "posted" THEN requests ELSE 0) + 1
         /\ pc' = "posted"
         /\ response' = NoResponse
         /\ result' = None
    ELSE /\ request' = NoRequest
         /\ requests' = (IF pc = "posted" THEN requests ELSE 0)
         /\ pc' = "done"
         /\ response' = NoResponse
         /\ result' = Some(Err(From_ReqwestError))

(***************************************************************************)
(* send_single up to its request: the key is resolved first, and a missing *)
(* key returns before the URL and the payload are built.                   *)
(***************************************************************************)
send_single(self, m) ==
    LET key == get_device_key(self, m) IN
    IF IsErr(key)
    THEN /\ result' = Some(key)
         /\ pc' = "done"
         /\ request' = NoRequest
         /\ requests' = 0
         /\ response' = NoResponse
    ELSE Post(push_url(self), insert(build_json_payload(m), "device_key", JString(key[2])))

(***************************************************************************)
(* Mutant of send_batch: adds the single device_key when one resolves.     *)
(***************************************************************************)
send_batch_with_device_key(self, m) ==
    LET key == get_device_key(self, m) IN
    Post(push_url(self),
         IF IsOk(key)
         THEN insert(build_json_payload(m), "device_key", JString(key[2]))
         ELSE build_json_payload(m))

(***************************************************************************)
(* send_batch up to its request.                                           *)
(***************************************************************************)
send_batch(self, m) == Post(push_url(self), build_json_payload(m))

(***************************************************************************)
(* SyncBarkClient::send: the batch path when device_keys is present, the   *)
(* single path otherwise.  The call runs until its request is issued or    *)
(* until it returns MissingDeviceKey.                                      *)
(***************************************************************************)
\* Mutant of SyncBarkClient::send: the default key is shared between clients.
SyncBarkClient_send_shared_default(self, m) ==
    IF IsSome(m.device_keys) THEN send_batch(self, m)
    ELSE send_single([self EXCEPT !.default_device_key = other.client.default_device_key], m)

SyncBarkClient_send(self, m) ==
    IF IsSome(m.device_keys) THEN send_batch(self, m) ELSE send_single(self, m)

\* Mutant of send: the key that was resolved is kept in the message.
send_keeps_resolved_key ==
    /\ origin # "builder"
    /\ client # NoClient
    /\ pc \in {"idle", "done"}
    /\ SyncBarkClient_send(client, message)
    /\ message' = IF IsOk(get_device_key(client, message))
                  THEN [message EXCEPT !.device_key = Some(get_device_key(client, message)[2])]
                  ELSE message
    /\ UNCHANGED <<builder, origin, calls, lastArg>>
    /\ UNCHANGED clientVars
    /\ UNCHANGED auxVars

send ==
    /\ origin # "builder"
    /\ client # NoClient
    /\ pc \in {"idle", "done"}
    /\ SyncBarkClient_send(client, message)
    /\ UNCHANGED builderVars
    /\ UNCHANGED clientVars
    /\ UNCHANGED auxVars

(***************************************************************************)
(* HTTP response bodies the server may send back.                          *)
(***************************************************************************)
Object(o) == <<"object", o>>
Text(t) == <<"text", t>>

Bodies ==
    { Object([code |-> JNumber(200), message |-> JString("ok")]),
      Object([code |-> JNumber(200), message |-> JString("ok"), timestamp |-> JNumber(1)]),
      Object([code |-> JNumber(400), message |-> JString("bad")]),
      Object([code |-> JNumber(200)]),
      Text("garbage") }

(***************************************************************************)
(* Deserialize for BarkResponse {code: i32, message: String,               *)
(* timestamp: Option<i64>}: code and message are required, a missing       *)
(* timestamp is None.                                                      *)
(***************************************************************************)
Decodable(b) ==
    /\ b[1] = "object"
    /\ "code" \in DOMAIN b[2] /\ b[2].code[1] = "Number"
    /\ "message" \in DOMAIN b[2] /\ b[2].message[1] = "String"
    /\ "timestamp" \in DOMAIN b[2] => b[2].timestamp[1] = "Number"

\* Mutant of BarkResponse: a missing timestamp decodes as 0.
BarkResponse_timestamp_zero(b) ==
    [code |-> b[2].code[2],
     message |-> b[2].message[2],
     timestamp |-> IF "timestamp" \in DOMAIN b[2] THEN Some(b[2].timestamp[2]) ELSE Some(0)]

BarkResponse(b) ==
    [code |-> b[2].code[2],
     message |-> b[2].message[2],
     timestamp |-> IF "timestamp" \in DOMAIN b[2] THEN Some(b[2].timestamp[2]) ELSE None]

(***************************************************************************)
(* response.json()?  reqwest's Response::json returns reqwest::Error when  *)
(* the body does not decode; ? converts it with From<ReqwestError>.        *)
(***************************************************************************)
response_json(b) ==
    IF Decodable(b) THEN Ok(BarkResponse(b)) ELSE Err(From_ReqwestError)

(***************************************************************************)
(* The request fails in transport: .send()? returns the reqwest::Error     *)
(* through From<ReqwestError>.                                             *)
(***************************************************************************)
transport_error == Err(From_ReqwestError)

\* Mutant of SendFails: a failed request is issued once more before giving up.
SendFails_retry ==
    /\ pc = "posted"
    /\ IF requests < 2
       THEN Post(request.url, request.json)
       ELSE /\ result' = Some(transport_error)
            /\ pc' = "done"
            /\ UNCHANGED <<request, requests, response>>
    /\ UNCHANGED builderVars
    /\ UNCHANGED clientVars
    /\ UNCHANGED auxVars

SendFails ==
    /\ pc = "posted"
    /\ result' = Some(transport_error)
    /\ pc' = "done"
    /\ UNCHANGED <<request, requests, response>>
    /\ UNCHANGED builderVars
    /\ UNCHANGED clientVars
    /\ UNCHANGED auxVars

(***************************************************************************)
(* The server answers: the body is decoded and send returns.               *)
(***************************************************************************)
Respond ==
    /\ pc = "posted"
    /\ \E b \in Bodies :
        /\ response' = b
        /\ result' = Some(response_json(b))
    /\ pc' = "done"
    /\ UNCHANGED <<request, requests>>
    /\ UNCHANGED builderVars
    /\ UNCHANGED clientVars
    /\ UNCHANGED auxVars

(***************************************************************************)
(* The send specification: a client made by one of the constructors, a     *)
(* message made with the builder, and any number of sends.                 *)
(***************************************************************************)
InitUrl == <<"h", ":", "/">>
InitKey == "k1"

Init ==
    /\ InitBuilderVars
    /\ \/ /\ client = new(InitUrl)
          /\ ctor = [fn |-> "new", base_url |-> InitUrl, device_key |-> None]
       \/ /\ client = with_device_key(InitUrl, InitKey)
          /\ ctor = [fn |-> "with_device_key", base_url |-> InitUrl, device_key |-> Some(InitKey)]
    /\ InitSendVars
    /\ InitAuxVars

Next ==
    \/ BuilderNext
    \/ Assign_volume
    \/ send
    \/ SendFails
    \/ Respond

Spec == Init /\ [][Next]_vars

(***************************************************************************)
(* Properties.                                                             *)
(***************************************************************************)
Sending == pc \in {"posted", "done"}
SinglePath == message.device_keys = None
BatchPath == IsSome(message.device_keys)
NoKey == message.device_key = None /\ client.default_device_key = None

C2_BatchPath ==
    (Sending /\ BatchPath)
        => /\ request # NoRequest
           /\ "device_keys" \in DOMAIN request.json
           /\ request.json.device_keys = JArray(Unwrap(message.device_keys))
           /\ "device_key" \notin DOMAIN request.json

C2_Witness ==
    /\ pc = "posted"
    /\ message.device_keys = Some(<<"k1", "k2">>)
    /\ IsSome(message.device_key)
    /\ IsSome(client.default_device_key)
    /\ request.json.device_keys = JArray(<<"k1", "k2">>)
    /\ "device_key" \notin DOMAIN request.json

\* C3: on the single path the payload's device_key is the message's device_key
\* when it has one, and the client's default key otherwise.
C3_EffectiveKey ==
    (Sending /\ SinglePath /\ ~NoKey)
        => /\ request # NoRequest
           /\ "device_key" \in DOMAIN request.json
           /\ request.json.device_key =
                JString(IF IsSome(message.device_key)
                        THEN Unwrap(message.device_key)
                        ELSE Unwrap(client.default_device_key))

C3_Witness ==
    /\ pc = "posted" /\ SinglePath
    /\ message.device_key = Some("k2")
    /\ client.default_device_key = Some("k1")
    /\ request.json.device_key = JString("k2")

WireName(f) ==
    CASE f = "auto_copy" -> "autoCopy"
      [] f = "is_archive" -> "isArchive"
      [] OTHER -> f

PayloadFields == Fields \ {"body", "device_key"}

\* C5 as stated: the payload has body, and the key of every other field
\* exactly when the field is present (device_key aside).
C5_Original ==
    pc = "posted"
        => DOMAIN request.json \ {"device_key"}
             = {"body"} \cup {WireName(f) : f \in {g \in PayloadFields : IsSome(message[g])}}

\* C5 amended: the payload has body, the key volume exactly when the volume
\* field is present with a value of at most 10, and the key of every other
\* field exactly when the field is present; device_key aside, it has no other
\* key.
C5_PayloadKeys ==
    pc = "posted"
        => DOMAIN request.json \ {"device_key"}
             = {"body"} \cup
               {WireName(f) : f \in {g \in PayloadFields :
                    /\ IsSome(message[g])
                    /\ g = "volume" => Unwrap(message.volume) <= 10}}

C5_Witness ==
    /\ pc = "posted"
    /\ IsSome(message.volume) /\ Unwrap(message.volume) > 10
    /\ IsSome(message.auto_copy)
    /\ DOMAIN request.json = {"body", "autoCopy", "device_key"}

BoolKeys == {"call", "auto_copy", "is_archive", "delete"}

\* C6: in every payload, each of call, autoCopy, isArchive and delete that is
\* present is the string "1" for a true field and the string "0" for a false
\* one.
C6_BoolStrings ==
    pc = "posted"
        => \A f \in BoolKeys :
             IsSome(message[f])
                => /\ WireName(f) \in DOMAIN request.json
                   /\ request.json[WireName(f)] \in {JString("1"), JString("0")}
                   /\ request.json[WireName(f)] = JString("1") <=> Unwrap(message[f])

C6_Witness ==
    /\ pc = "posted"
    /\ message.is_archive = Some(TRUE) /\ request.json.isArchive = JString("1")
    /\ message.call = Some(FALSE) /\ request.json.call = JString("0")

(***************************************************************************)
(* The input with one trailing slash removed, if it has one.               *)
(***************************************************************************)
OneSlashRemoved(u) ==
    IF u # <<>> /\ u[Len(u)] = "/" THEN SubSeq(u, 1, Len(u) - 1) ELSE u

Constructed == ctor.fn # "none"

\* C7 as stated: the constructors store the input with a trailing slash
\* removed, new stores no default key and with_device_key the given key.
C7_Original ==
    Constructed
        => /\ client.base_url = OneSlashRemoved(ctor.base_url)
           /\ client.default_device_key = ctor.device_key

\* C7 amended: the constructors store the input with all its trailing slashes
\* removed: the stored base_url does not end in a slash and the input is the
\* stored base_url followed by slashes only (an input without a trailing
\* slash is stored unchanged); new stores no default key and with_device_key
\* stores exactly the given key.
C7_BaseUrlTrimmed ==
    Constructed
        => LET stored == client.base_url
               given == ctor.base_url
           IN  /\ stored = <<>> \/ stored[Len(stored)] # "/"
               /\ Len(stored) <= Len(given)
               /\ SubSeq(given, 1, Len(stored)) = stored
               /\ \A i \in (Len(stored) + 1)..Len(given) : given[i] = "/"
               /\ ctor.fn = "new" => client.default_device_key = None
               /\ ctor.fn = "with_device_key"
                    => /\ IsSome(ctor.device_key)
                       /\ client.default_device_key = ctor.device_key

C7_Witness ==
    /\ ctor.fn = "with_device_key"
    /\ ctor.base_url = <<"h", "/", "/">>
    /\ ctor.device_key = Some("k1")
    /\ client.base_url = <<"h">>
    /\ client.default_device_key = Some("k1")

(***************************************************************************)
(* The setter of each field applied to a builder, and the arguments tried  *)
(* for it.                                                                 *)
(***************************************************************************)
Setter(f, b, v) ==
    CASE f = "body" -> body(b, v)
      [] f = "title" -> title(b, v)
      [] f = "subtitle" -> subtitle(b, v)
      [] f = "device_key" -> device_key(b, v)
      [] f = "device_keys" -> device_keys(b, v)
      [] f = "level" -> level(b, v)
      [] f = "volume" -> volume(b, v)
      [] f = "badge" -> badge(b, v)
      [] f = "call" -> call(b, v)
      [] f = "auto_copy" -> auto_copy(b, v)
      [] f = "copy" -> copy(b, v)
      [] f = "sound" -> sound(b, v)
      [] f = "icon" -> icon(b, v)
      [] f = "group" -> group(b, v)
      [] f = "ciphertext" -> ciphertext(b, v)
      [] f = "is_archive" -> is_archive(b, v)
      [] f = "url" -> url(b, v)
      [] f = "action" -> action(b, v)
      [] f = "id" -> id(b, v)
      [] f = "delete" -> delete(b, v)

ArgsOf(f) ==
    CASE f \in {"device_key"} -> Keys
      [] f = "device_keys" -> KeyLists
      [] f = "level" -> Levels
      [] f = "volume" -> Volumes
      [] f = "badge" -> Badges
      [] f \in BoolKeys -> Bools
      [] OTHER -> Strings

\* What a message holds for a field, as an Option (body is always present).
Held(m, f) == IF f = "body" THEN Some(m.body) ELSE m[f]

\* The message the builder gives: what build() would return, or has returned.
Built == IF origin = "builder" THEN build(builder) ELSE message

Idempotent ==
    origin = "builder"
        => \A f \in Fields : \A v \in ArgsOf(f) :
             Setter(f, Setter(f, builder, v), v) = Setter(f, builder, v)

\* C8 as stated: for every field, the built message holds the value passed by
\* the last call to the field's setter, and a setter called twice with one
\* value gives what one call gives.
C8_Original ==
    origin # "field"
        => /\ \A f \in Fields : IsSome(lastArg[f]) => Held(Built, f) = lastArg[f]
           /\ Idempotent

\* C8 amended: for every field other than volume, the built message holds the
\* value passed by the last call to the field's setter; for volume it does so
\* when that value is at most 10 (a volume call with a larger value is
\* ignored); and a setter called twice with one value gives what one call
\* gives.
C8_LastCallWins ==
    origin # "field"
        => /\ \A f \in Fields :
                (IsSome(lastArg[f]) /\ (f = "volume" => Unwrap(lastArg[f]) <= 10))
                    => Held(Built, f) = lastArg[f]
           /\ Idempotent

C8_Witness ==
    /\ origin = "build" /\ calls = 2
    /\ lastArg = [NoArgs EXCEPT !.title = Some("b")]
    /\ message.title = Some("b")

\* C9 as stated: every send that has returned issued exactly one HTTP request
\* and has exactly one result.
C9_Original ==
    /\ pc = "done" <=> IsSome(result)
    /\ pc = "done" => requests = 1

\* C9 amended: a send issues at most one HTTP request and returns exactly one
\* result: none when it returns MissingDeviceKey or when the HTTP client
\* rejects the URL base_url + "/push" before sending, exactly one in every
\* other case; a send whose request or decode failed has issued one request,
\* so nothing is retried.
C9_OneRequestPerSend ==
    /\ requests <= 1
    /\ pc = "done" <=> IsSome(result)
    /\ pc = "posted" => requests = 1
    /\ pc = "done"
         => requests = (IF \/ result = Some(Err("MissingDeviceKey"))
                           \/ ~into_url_ok(push_url(client))
                        THEN 0 ELSE 1)

C9_Witness ==
    /\ pc = "done"
    /\ response = Text("garbage")
    /\ IsErr(Unwrap(result))
    /\ requests = 1

\* C10: a send whose request failed in transport returns RequestError, and a
\* send whose response body does not decode as a Response returns
\* SerializationError.
C10_DistinctErrorKinds ==
    (pc = "done" /\ requests = 1)
        => /\ response = NoResponse => result = Some(Err("RequestError"))
           /\ (response # NoResponse /\ ~Decodable(response))
                => result = Some(Err("SerializationError"))

(***************************************************************************)
(* A message with every field set through the builder; device_keys is set  *)
(* only for a batch message.                                               *)
(***************************************************************************)
FullBuilder(s, flag, lv, batch) ==
    LET b1 == subtitle(title(body(BarkMessageBuilder_new, s), s), s)
        b2 == IF batch THEN device_keys(device_key(b1, "k2"), <<"k1", "k2">>)
                       ELSE device_key(b1, "k2")
        b3 == auto_copy(call(badge(volume(level(b2, lv), 10), 5), flag), flag)
        b4 == ciphertext(group(icon(sound(copy(b3, s), s), s), s), s)
    IN  delete(id(action(url(is_archive(b4, flag), s), s), s), flag)

FullArgs(s, flag, lv, batch) ==
    [f \in Fields |->
        CASE f = "device_key" -> Some("k2")
          [] f = "device_keys" -> IF batch THEN Some(<<"k1", "k2">>) ELSE None
          [] f = "level" -> Some(lv)
          [] f = "volume" -> Some(10)
          [] f = "badge" -> Some(5)
          [] f \in BoolKeys -> Some(flag)
          [] OTHER -> Some(s)]

(***************************************************************************)
(* The two-client specification: one message, built beforehand with no     *)
(* setter call, with one setter call or with every setter, is sent through *)
(* two clients whose sends interleave.  The variables client .. result     *)
(* hold the send that runs, `other` the one that waits.                    *)
(***************************************************************************)
InitBuilt ==
    /\ \/ /\ builder = BarkMessageBuilder_new
          /\ lastArg = NoArgs
          /\ calls = 0
       \/ \E f \in Fields : \E v \in ArgsOf(f) :
          /\ builder = Setter(f, BarkMessageBuilder_new, v)
          /\ lastArg = [NoArgs EXCEPT ![f] = Some(v)]
          /\ calls = 1
       \/ \E s \in Strings, flag \in Bools, lv \in Levels, batch \in Bools :
          /\ builder = FullBuilder(s, flag, lv, batch)
          /\ lastArg = FullArgs(s, flag, lv, batch)
          /\ calls = Cardinality({f \in Fields : IsSome(lastArg[f])})
    /\ origin = "build"
    /\ message = build(builder)

OtherUrl == <<"h", ":", "h">>
OtherKey == "k2"

InitSend ==
    /\ InitBuilt
    /\ \E u \in Urls :
        \/ /\ client = new(u)
           /\ ctor = [fn |-> "new", base_url |-> u, device_key |-> None]
        \/ /\ client = with_device_key(u, InitKey)
           /\ ctor = [fn |-> "with_device_key", base_url |-> u, device_key |-> Some(InitKey)]
    /\ InitSendVars
    /\ syncBuilder = NoSyncBuilder
    /\ other = [client |-> with_device_key(OtherUrl, OtherKey),
                ctor |-> [fn |-> "with_device_key", base_url |-> OtherUrl,
                          device_key |-> Some(OtherKey)],
                pc |-> "idle", request |-> NoRequest, requests |-> 0,
                response |-> NoResponse, result |-> None]

Running ==
    [client |-> client, ctor |-> ctor, pc |-> pc, request |-> request,
     requests |-> requests, response |-> response, result |-> result]

(***************************************************************************)
(* The scheduler lets the other send run.                                  *)
(***************************************************************************)
Switch ==
    /\ other # NoOther
    /\ client' = other.client
    /\ ctor' = other.ctor
    /\ pc' = other.pc
    /\ request' = other.request
    /\ requests' = other.requests
    /\ response' = other.response
    /\ result' = other.result
    /\ other' = Running
    /\ UNCHANGED builderVars
    /\ UNCHANGED syncBuilder

NextSend == send \/ SendFails \/ Respond \/ Switch

SpecSend == InitSend /\ [][NextSend]_vars

(***************************************************************************)
(* The client a constructor call gives, and the two sends of SpecSend.     *)
(***************************************************************************)
FromCtor(c) ==
    IF c.fn = "new" THEN new(c.base_url)
    ELSE with_device_key(c.base_url, Unwrap(c.device_key))

BothSends == {Running, other}

\* C11: send changes neither the message nor the client: across every step of
\* a send the message keeps every field and the client keeps base_url and
\* default_device_key, after any number of sends; and a send that follows
\* another one of the same message through the same client issues the same
\* request (same URL, same payload).
C11_SendFrame ==
    [][/\ message' = message
       /\ other' = other
            => /\ client' = client
               /\ (request # NoRequest /\ request' # NoRequest) => request' = request
      ]_vars

C11_Witness ==
    /\ pc = "posted" /\ requests = 1
    /\ other.pc = "done" /\ IsOk(Unwrap(other.result))
    /\ calls > 1
    /\ message = build(builder)
    /\ client = FromCtor(ctor)
    /\ client.default_device_key = None

\* C12: one message sent through two clients, their steps interleaved in any
\* order: each send is independent.  The message stays as built, each client
\* keeps its configuration, each request goes to its own client's URL with,
\* on the single path, the key resolved from the message and its own client,
\* the rest of the payload is the message's, and each result is decoded from
\* its own response.
C12_IndependentSends ==
    /\ message = build(builder)
    /\ \A c \in BothSends :
        /\ c.client = FromCtor(c.ctor)
        /\ c.request # NoRequest
            => /\ c.request.url = c.client.base_url \o <<"/", "p", "u", "s", "h">>
               /\ [k \in DOMAIN c.request.json \ {"device_key"} |-> c.request.json[k]]
                    = build_json_payload(build(builder))
               /\ "device_key" \in DOMAIN c.request.json
                    => c.request.json["device_key"]
                         = JString(IF IsSome(message.device_key)
                                   THEN Unwrap(message.device_key)
                                   ELSE Unwrap(c.client.default_device_key))
        /\ (c.pc = "done" /\ c.response # NoResponse)
            => c.result = Some(response_json(c.response))

C12_Witness ==
    /\ pc = "posted" /\ other.pc = "posted"
    /\ message.device_key = None /\ message.device_keys = None
    /\ request.json["device_key"] = JString(InitKey)
    /\ other.request.json["device_key"] = JString(OtherKey)
    /\ request.url # other.request.url

\* C13: every request, on the single path and on the batch path, is an HTTP
\* POST to the client's stored base_url followed by "/push", and its body is
\* the JSON payload built from the message (with the resolved device_key
\* added on the single path).
C13_PostToPush ==
    request # NoRequest
        => /\ request.method = "POST"
           /\ request.url = client.base_url \o <<"/", "p", "u", "s", "h">>
           /\ request.json
                = (IF BatchPath THEN build_json_payload(message)
                   ELSE insert(build_json_payload(message), "device_key",
                               JString(get_device_key(client, message)[2])))

C13_Witness ==
    /\ pc = "posted" /\ BatchPath
    /\ request.method = "POST"
    /\ request.url = <<"h", ":", "/", "p", "u", "s", "h">>
    /\ ctor.base_url = <<"h", ":", "/">>
    /\ "device_keys" \in DOMAIN request.json
\* C14: a response body that decodes gives a Response with the body's code
\* and message, timestamp None when the body has none and the body's value
\* when it has one; {"code":200,"message":"ok"} answered to a message with
\* every field set gives code 200, message "ok", timestamp None.
C14_ResponseDecoded ==
    (pc = "done" /\ response # NoResponse /\ Decodable(response))
        => /\ IsOk(Unwrap(result))
           /\ Unwrap(result)[2].code = response[2].code[2]
           /\ Unwrap(result)[2].message = response[2].message[2]
           /\ "timestamp" \notin DOMAIN response[2]
                => Unwrap(result)[2].timestamp = None
           /\ "timestamp" \in DOMAIN response[2]
                => Unwrap(result)[2].timestamp = Some(response[2].timestamp[2])
           /\ response = Object([code |-> JNumber(200), message |-> JString("ok")])
                => result = Some(Ok([code |-> 200, message |-> "ok", timestamp |-> None]))

C14_Witness ==
    /\ pc = "done"
    /\ \A f \in Fields : IsSome(Held(message, f))
    /\ response = Object([code |-> JNumber(200), message |-> JString("ok")])
    /\ result = Some(Ok([code |-> 200, message |-> "ok", timestamp |-> None]))

\* C18: no send returns InvalidUrl, whatever the client, its base_url (empty
\* or malformed included) and the message: the only errors a send returns
\* are MissingDeviceKey, RequestError and SerializationError.
C18_NoInvalidUrl ==
    \A c \in BothSends :
        (IsSome(c.result) /\ IsErr(Unwrap(c.result)))
            => /\ Unwrap(c.result)[2] # "InvalidUrl"
               /\ Unwrap(c.result)[2]
                    \in {"MissingDeviceKey", "RequestError", "SerializationError"}

C18_Witness ==
    /\ pc = "done"
    /\ client.base_url = <<>>
    /\ ~into_url_ok(push_url(client))
    /\ result = Some(Err("RequestError"))
    /\ requests = 0
\* C15: a level is written to the payload as exactly one of four strings:
\* Critical as "critical", Active as "active", TimeSensitive as
\* "timeSensitive", Passive as "passive"; the four are pairwise distinct.
C15_LevelStrings ==
    /\ (pc = "posted" /\ IsSome(message.level))
        => /\ "level" \in DOMAIN request.json
           /\ request.json["level"]
                = JString(CASE Unwrap(message.level) = "Critical" -> "critical"
                            [] Unwrap(message.level) = "Active" -> "active"
                            [] Unwrap(message.level) = "TimeSensitive" -> "timeSensitive"
                            [] Unwrap(message.level) = "Passive" -> "passive")
    /\ \A l1, l2 \in Levels : as_str(l1) = as_str(l2) => l1 = l2

C15_Witness ==
    /\ pc = "posted"
    /\ message.level = Some("TimeSensitive")
    /\ request.json["level"] = JString("timeSensitive")

\* C16: the volume range is 1-10 as the setter's documentation says: a
\* volume(v) call with v outside 1..10, 0 included, leaves volume unset, and
\* one with v in 1..10 sets volume to v.
C16_VolumeDocRange ==
    (origin = "build" /\ calls = 1 /\ IsSome(lastArg.volume))
        => message.volume = (IF Unwrap(lastArg.volume) \in 1..10
                             THEN Some(Unwrap(lastArg.volume))
                             ELSE None)

\* C19: a builder on which no setter was called builds a message whose body
\* is "" and whose other fields are all absent; sent on the single path with
\* a key that resolves, its payload has exactly the keys body, with "", and
\* device_key.
C19_EmptyBuilder ==
    (origin = "build" /\ calls = 0)
        => /\ message.body = ""
           /\ \A f \in Fields \ {"body"} : message[f] = None
           /\ pc = "posted"
                => /\ DOMAIN request.json = {"body", "device_key"}
                   /\ request.json["body"] = JString("")
                   /\ request.json["device_key"]
                        = JString(Unwrap(client.default_device_key))

C19_Witness ==
    /\ origin = "build" /\ calls = 0
    /\ message.body = ""
    /\ pc = "posted"
    /\ DOMAIN request.json = {"body", "device_key"}

\* C20: each setter changes only its own field: whatever the builder holds
\* and whatever setter is called, every other field of the built message is
\* as before the call (device_key and device_keys leave each other alone),
\* and two setters of different fields give the same message in either order
\* (the two orders are compared from every builder of at most one call).
C20_SetterFrame ==
    origin = "builder"
        => \A f \in Fields : \A v \in ArgsOf(f) :
             /\ \A g \in Fields \ {f} :
                  build(Setter(f, builder, v))[g] = build(builder)[g]
             /\ calls <= 1
                  => \A g \in Fields \ {f} : \A w \in ArgsOf(g) :
                       build(Setter(g, Setter(f, builder, v), w))
                         = build(Setter(f, Setter(g, builder, w), v))

C20_Witness ==
    /\ origin = "build" /\ calls = 2
    /\ lastArg.device_key = Some("k1")
    /\ lastArg.device_keys = Some(<<"k2">>)
    /\ message.device_key = Some("k1")
    /\ message.device_keys = Some(<<"k2">>)

(***************************************************************************)
(* SyncBarkMessageBuilder {client, builder}: SyncBarkClient::message makes *)
(* one bound to the client, with a new BarkMessageBuilder inside.          *)
(***************************************************************************)
SyncBarkMessageBuilder_new(c) == [client |-> c, builder |-> BarkMessageBuilder_new]

SyncBarkClient_message(self) == SyncBarkMessageBuilder_new(self)

\* Mutant of the client-bound setters: title is passed on to subtitle.
SyncBarkMessageBuilder_set_wrong_field(self, f, v) ==
    [self EXCEPT !.builder =
        IF f = "title" THEN subtitle(self.builder, v) ELSE Setter(f, self.builder, v)]

(***************************************************************************)
(* The setters of SyncBarkMessageBuilder, by field: each one is            *)
(* self.builder = self.builder.<same setter>(v); self                      *)
(***************************************************************************)
SyncBarkMessageBuilder_set(self, f, v) ==
    [self EXCEPT !.builder =
        CASE f = "body" -> body(self.builder, v)
          [] f = "title" -> title(self.builder, v)
          [] f = "subtitle" -> subtitle(self.builder, v)
          [] f = "device_key" -> device_key(self.builder, v)
          [] f = "device_keys" -> device_keys(self.builder, v)
          [] f = "level" -> level(self.builder, v)
          [] f = "volume" -> volume(self.builder, v)
          [] f = "badge" -> badge(self.builder, v)
          [] f = "call" -> call(self.builder, v)
          [] f = "auto_copy" -> auto_copy(self.builder, v)
          [] f = "copy" -> copy(self.builder, v)
          [] f = "sound" -> sound(self.builder, v)
          [] f = "icon" -> icon(self.builder, v)
          [] f = "group" -> group(self.builder, v)
          [] f = "ciphertext" -> ciphertext(self.builder, v)
          [] f = "is_archive" -> is_archive(self.builder, v)
          [] f = "url" -> url(self.builder, v)
          [] f = "action" -> action(self.builder, v)
          [] f = "id" -> id(self.builder, v)
          [] f = "delete" -> delete(self.builder, v)]

SyncBarkMessageBuilder_build(self) == build(self.builder)

(***************************************************************************)
(* One setter call on the client-bound builder.  The plain builder in      *)
(* `builder` receives the same call, so that the two can be compared.      *)
(***************************************************************************)
Sync_set ==
    /\ origin = "builder"
    /\ calls < MaxCalls
    /\ \E f \in Fields : \E v \in ArgsOf(f) :
        /\ syncBuilder' = SyncBarkMessageBuilder_set(syncBuilder, f, v)
        /\ builder' = Setter(f, builder, v)
        /\ lastArg' = [lastArg EXCEPT ![f] = Some(v)]
    /\ calls' = calls + 1
    /\ UNCHANGED <<message, origin, other>>
    /\ UNCHANGED clientVars
    /\ UNCHANGED sendVars

(***************************************************************************)
(* SyncBarkMessageBuilder::build                                           *)
(***************************************************************************)
Sync_build ==
    /\ origin = "builder"
    /\ message' = SyncBarkMessageBuilder_build(syncBuilder)
    /\ origin' = "sync_build"
    /\ UNCHANGED <<builder, calls, lastArg>>
    /\ UNCHANGED clientVars
    /\ UNCHANGED sendVars
    /\ UNCHANGED auxVars

(***************************************************************************)
(* SyncBarkMessageBuilder::send: build, then send through the bound        *)
(* client.  It runs after the plain builder's message was sent with        *)
(* client.send, whose outcome is kept in `other` for comparison.           *)
(***************************************************************************)
Sync_send ==
    /\ origin = "build"
    /\ pc = "done"
    /\ other = NoOther
    /\ other' = Running
    /\ SyncBarkClient_send(syncBuilder.client, SyncBarkMessageBuilder_build(syncBuilder))
    /\ origin' = "sync_send"
    /\ UNCHANGED <<builder, message, calls, lastArg, syncBuilder>>
    /\ UNCHANGED clientVars

InitSync ==
    /\ InitBuilderVars
    /\ \/ /\ client = new(InitUrl)
          /\ ctor = [fn |-> "new", base_url |-> InitUrl, device_key |-> None]
       \/ /\ client = with_device_key(InitUrl, InitKey)
          /\ ctor = [fn |-> "with_device_key", base_url |-> InitUrl, device_key |-> Some(InitKey)]
    /\ InitSendVars
    /\ syncBuilder = SyncBarkClient_message(client)
    /\ other = NoOther

NextSync ==
    \/ Sync_set
    \/ Call_build
    \/ Sync_build
    \/ send
    \/ Sync_send
    \/ SendFails
    \/ Respond

SpecSync == InitSync /\ [][NextSync]_vars

\* C17: the client-bound builder is the plain builder followed by send: after
\* the same setter calls, client.message()...build() gives the plain
\* builder's message field by field, and client.message()...send() issues the
\* request client.send issued for the plain builder's message (same URL, same
\* payload), fails before any request exactly when that one did, and returns a
\* result of the same kind for the same response.
C17_SyncBuilderEquivalent ==
    /\ origin = "sync_build"
        => \A f \in Fields : message[f] = build(builder)[f]
    /\ origin = "sync_send"
        => /\ request = other.request
           /\ pc = "done"
                => /\ (result = Some(Err("MissingDeviceKey")))
                        <=> (other.result = Some(Err("MissingDeviceKey")))
                   /\ response = other.response
                        => Unwrap(result)[1] = Unwrap(other.result)[1]
                   /\ (response = other.response /\ request # NoRequest)
                        => result = other.result

C17_Witness ==
    /\ origin = "sync_send" /\ pc = "done" /\ calls = 2
    /\ IsSome(message.title) /\ IsSome(message.volume)
    /\ request # NoRequest /\ request = other.request
    /\ response = other.response
    /\ IsOk(Unwrap(result))

(***************************************************************************)
(* A sequence of volume calls on a builder, and the last value of the      *)
(* sequence that is at most 10, if there is one.                           *)
(***************************************************************************)
RECURSIVE VolumeCalls(_, _)
VolumeCalls(b, vs) ==
    IF vs = <<>> THEN b ELSE VolumeCalls(volume(b, Head(vs)), Tail(vs))

RECURSIVE LastInRange(_)
LastInRange(vs) ==
    IF vs = <<>> THEN None
    ELSE IF vs[Len(vs)] <= 10 THEN Some(vs[Len(vs)])
    ELSE LastInRange(SubSeq(vs, 1, Len(vs) - 1))

VolumeSeqs == UNION {[1..n -> Volumes] : n \in 1..MaxCalls}

\* C21: a volume call with a value above 10 leaves the whole builder as it
\* was: it keeps the volume an earlier call had set and alters no other
\* field (volume(5) then a call above 10 builds volume 5); after any sequence
\* of volume calls the built volume is the last value of at most 10 that was
\* passed, or what it was before when none was (unset on a new builder).
C21_OutOfRangeKeepsBuilder ==
    /\ origin = "builder"
        => \A v \in Volumes : v > 10 => volume(builder, v) = builder
    /\ (origin = "builder" /\ calls <= 1)
        => \A vs \in VolumeSeqs :
             /\ build(VolumeCalls(builder, vs)).volume
                  = (IF IsSome(LastInRange(vs)) THEN LastInRange(vs)
                     ELSE build(builder).volume)
             /\ \A g \in Fields \ {"volume"} :
                  build(VolumeCalls(builder, vs))[g] = build(builder)[g]
    /\ (origin = "build" /\ lastArg = [NoArgs EXCEPT !.volume = lastArg.volume])
        => /\ IsSome(message.volume) => Unwrap(message.volume) <= 10
           /\ (IsSome(lastArg.volume) /\ Unwrap(lastArg.volume) <= 10)
                => message.volume = lastArg.volume
           /\ \A g \in Fields \ {"volume"} : message[g] = BarkMessage_default[g]

C21_Witness ==
    /\ origin = "build" /\ calls = 2
    /\ lastArg = [NoArgs EXCEPT !.volume = Some(U8Max)]
    /\ message.volume = Some(5)

\* C22: whenever a payload has the key volume its value is within 0..10, for
\* every message, one whose public volume field was assigned a value above 10
\* included: that message is sent with no volume key and without error (the
\* request is issued when a key resolves, and a response that decodes is
\* returned as Ok).
C22_PayloadVolumeRange ==
    /\ (pc = "posted" /\ "volume" \in DOMAIN request.json)
        => /\ request.json["volume"][1] = "Number"
           /\ request.json["volume"][2] \in 0..10
    /\ (Sending /\ IsSome(message.volume) /\ Unwrap(message.volume) > 10)
        => /\ ~(SinglePath /\ NoKey)
                => /\ request # NoRequest
                   /\ "volume" \notin DOMAIN request.json
           /\ (pc = "done" /\ response # NoResponse /\ Decodable(response))
                => IsOk(Unwrap(result))

C22_Witness ==
    /\ origin = "field"
    /\ pc = "done"
    /\ message.volume = Some(U8Max)
    /\ request # NoRequest
    /\ "volume" \notin DOMAIN request.json
    /\ IsOk(Unwrap(result))

====
